---- MODULE Spec2Model ----
(***************************************************************************)
(* Head-tracking audio panner (src/src/main.rs): the UDP receive loop of   *)
(* main, SmoothedState::update, AudioState::from_head_tracking and         *)
(* set_all_streams_pan.                                                    *)
(*                                                                         *)
(* Numbers.  An f64 is a record [nan, v]: NaN, or the exact value v on a   *)
(* fixed-point grid.  Angles are in units of 1/Unit degree, where Unit is  *)
(* 4^MaxPackets, so that MaxPackets applications of the 0.75/0.25 blend    *)
(* are exact.  Infinities are not modelled.  Time is in milliseconds.      *)
(***************************************************************************)
EXTENDS Integers, Sequences, FiniteSets, TLC

VARIABLES
    pc,               \* "bind", "set_timeout", "loop", "exited", "panicked"
    now,              \* the monotonic clock read by Instant::now()
    last_update, last_fps_calc, pre_audio,
    packet_count, frame_count, current_fps, stream_count,
    smoothed, first_packet, raw,
    latency_samples, avg_latency_ms,
    audio,            \* the AudioState of the latest apply
    stderr_lines,     \* number of "Socket error" lines written by the loop
    last_recv,        \* history: the latest recv_from, [kind, len as sent, amt]
    frames,           \* history: the samples decoded so far, in arrival order
    applied,          \* history: number of apply cycles executed so far
    pan_in, pan_out,  \* argument and result of a set_all_streams_pan call
    scan_i,           \* the index i of set_all_streams_pan's outer while loop (1-based)
    pw_lists,         \* history: number of `pw-cli list-objects Node` invocations
    lat_history       \* history: every latency sample pushed so far, in order

loopState == <<last_update, last_fps_calc, pre_audio, packet_count, frame_count,
               current_fps, stream_count, smoothed, first_packet, raw,
               latency_samples, avg_latency_ms, audio>>
aux == <<scan_i, pw_lists, lat_history>>
vars == <<pc, now, loopState, stderr_lines, last_recv, frames, applied, pan_in, pan_out, aux>>

---------------------------------------------------------------------------
(* Program constants *)

SMOOTHING_FACTOR_PCT == 75
YAW_SENSITIVITY == 30
PITCH_SENSITIVITY == 20
DEAD_ZONE == 5
UPDATE_RATE_MS == 40
MIN_VOLUME_TENTHS == 3
MAX_VOLUME_TENTHS == 10
MIN_CHANNEL_PCT == 5
BUF_LEN == 48
FRAME_LEN == 48
LATENCY_CAP == 30
LOOKAHEAD == 20
FPS_WINDOW_MS == 1000

(* Bounds of the model *)

MaxPackets == 2      \* datagrams received
MaxIdle == 40        \* ms the loop may idle on receive errors since the last apply
MaxErrLog == 1       \* logged receive errors
MaxNodes == 2        \* segments of an introspection listing
MaxPushes == 3       \* apply cycles run on a full latency window
MaxHold == 4         \* updates made with the raw input held constant

---------------------------------------------------------------------------
(* f64 values *)

RECURSIVE Pow(_, _)
Pow(b, n) == IF n = 0 THEN 1 ELSE b * Pow(b, n - 1)

Unit == Pow(4, MaxPackets)

Fin(x) == [nan |-> FALSE, v |-> x]
NaN == [nan |-> TRUE, v |-> 0]
Deg(d) == Fin(d * Unit)

Abs(x) == IF x < 0 THEN -x ELSE x
Signum(x) == IF x < 0 THEN -1 ELSE 1
Clamp(x, lo, hi) == IF x < lo THEN lo ELSE IF x > hi THEN hi ELSE x

\* f64::max: if one argument is NaN the other is returned
FMax(a, b) ==
    IF a.nan THEN b ELSE IF b.nan THEN a ELSE IF a.v >= b.v THEN a ELSE b

\* a * b for values on grids whose product stays on the result grid
FMul(a, b) == IF a.nan \/ b.nan THEN NaN ELSE Fin(a.v * b.v)

---------------------------------------------------------------------------
(* SmoothedState *)

SmoothedNew == [yaw |-> Fin(0), pitch |-> Fin(0), roll |-> Fin(0)]

\* mutant of Blend: the two weights exchanged
Blend_Swapped(prev, cur) ==
    IF prev.nan \/ cur.nan THEN NaN
    ELSE Fin(((100 - SMOOTHING_FACTOR_PCT) * prev.v
              + SMOOTHING_FACTOR_PCT * cur.v) \div 100)

\* SMOOTHING_FACTOR * prev + (1.0 - SMOOTHING_FACTOR) * cur
Blend(prev, cur) ==
    IF prev.nan \/ cur.nan THEN NaN
    ELSE Fin((SMOOTHING_FACTOR_PCT * prev.v
              + (100 - SMOOTHING_FACTOR_PCT) * cur.v) \div 100)

Update(self, raw_yaw, raw_pitch, raw_roll) ==
    [yaw   |-> Blend(self.yaw, raw_yaw),
     pitch |-> Blend(self.pitch, raw_pitch),
     roll  |-> Blend(self.roll, raw_roll)]

---------------------------------------------------------------------------
(* AudioState.  normalized and the pre-volume gains are in units of        *)
(* 1/NormDen, volume in units of 1/VolDen, left and right in units of      *)
(* 1/(NormDen * VolDen).                                                   *)

max_yaw == (YAW_SENSITIVITY - DEAD_ZONE) * Unit
NormDen == 2 * max_yaw
PitchDen == 2 * PITCH_SENSITIVITY * Unit
VolDen == 10 * PitchDen
MinChannelN == (MIN_CHANNEL_PCT * NormDen) \div 100

\* mutant of EffectiveYaw: outside the dead zone the sign of the yaw is dropped
EffectiveYaw_NoSign(yaw) ==
    IF yaw.nan THEN NaN
    ELSE IF Abs(yaw.v) < DEAD_ZONE * Unit THEN Fin(0)
    ELSE Fin(Abs(yaw.v) - DEAD_ZONE * Unit)

EffectiveYaw(yaw) ==
    IF yaw.nan THEN NaN
    ELSE IF Abs(yaw.v) < DEAD_ZONE * Unit THEN Fin(0)
    ELSE Fin(Signum(yaw.v) * (Abs(yaw.v) - DEAD_ZONE * Unit))

Normalized(effective_yaw) ==
    IF effective_yaw.nan THEN NaN
    ELSE Fin(Clamp(effective_yaw.v, -max_yaw, max_yaw) + max_yaw)

OneMinus(normalized) ==
    IF normalized.nan THEN NaN ELSE Fin(NormDen - normalized.v)

Volume(pitch) ==
    IF pitch.nan THEN NaN
    ELSE LET pitch_normalized ==
                 Clamp(pitch.v, -PITCH_SENSITIVITY * Unit, PITCH_SENSITIVITY * Unit)
                 + PITCH_SENSITIVITY * Unit
         IN Fin(MIN_VOLUME_TENTHS * PitchDen
                + pitch_normalized * (MAX_VOLUME_TENTHS - MIN_VOLUME_TENTHS))

from_head_tracking(yaw, pitch) ==
    LET effective_yaw == EffectiveYaw(yaw)
        normalized == Normalized(effective_yaw)
        left == FMax(OneMinus(normalized), Fin(MinChannelN))
        right == FMax(normalized, Fin(MinChannelN))
        volume == Volume(pitch)
    IN [left |-> FMul(left, volume), right |-> FMul(right, volume),
        volume |-> volume, effective_yaw |-> effective_yaw]

---------------------------------------------------------------------------
(* set_all_streams_pan.  A line of the listing is the record of the tests  *)
(* the scan makes on it: starts_id (trim().starts_with("id")), node        *)
(* (contains "PipeWire:Interface:Node"), token (split_whitespace().nth(1)  *)
(* exists) and playback (contains "media.class" and "Stream/Output/Audio").*)
(* A run of pw-cli is [spawned, success, stdout]; the outcome of the k-th  *)
(* set-param invocation of a call is upd[k].                               *)

Line(s, n, t, p) == [starts_id |-> s, node |-> n, token |-> t, playback |-> p]
NodeLine == Line(TRUE, TRUE, TRUE, FALSE)
NodeNoTokenLine == Line(TRUE, TRUE, FALSE, FALSE)
IdLine == Line(TRUE, FALSE, TRUE, FALSE)
MediaLine == Line(FALSE, FALSE, TRUE, TRUE)
OtherLine == Line(FALSE, FALSE, TRUE, FALSE)

UpdateOutcomes == {"ok", "nonzero", "spawn_err"}

\* mutant of UpdateCounted: the exit status of set-param is not looked at
UpdateCounted_AnyExit(result) == result \in {"ok", "nonzero"}

\* if let Ok(out) = result { if out.status.success() { updated_count += 1 } }
UpdateCounted(result) == result = "ok"

\* mutant of Lookahead: the lookahead reads one line more
RECURSIVE Lookahead_OneMore(_, _, _, _)
Lookahead_OneMore(lines, i, j, is_audio_output) ==
    IF j <= Len(lines) /\ j <= i + LOOKAHEAD
    THEN IF lines[j].starts_id
         THEN is_audio_output
         ELSE Lookahead_OneMore(lines, i, j + 1, is_audio_output \/ lines[j].playback)
    ELSE is_audio_output

\* mutant of Lookahead: only a node line ends the block
RECURSIVE Lookahead_NodeEnds(_, _, _, _)
Lookahead_NodeEnds(lines, i, j, is_audio_output) ==
    IF j <= Len(lines) /\ j < i + LOOKAHEAD
    THEN IF lines[j].starts_id /\ lines[j].node
         THEN is_audio_output
         ELSE Lookahead_NodeEnds(lines, i, j + 1, is_audio_output \/ lines[j].playback)
    ELSE is_audio_output

\* the inner while: is_audio_output after the lookahead from line j of the block of line i
RECURSIVE Lookahead(_, _, _, _)
Lookahead(lines, i, j, is_audio_output) ==
    IF j <= Len(lines) /\ j < i + LOOKAHEAD
    THEN IF lines[j].starts_id
         THEN is_audio_output
         ELSE Lookahead(lines, i, j + 1, is_audio_output \/ lines[j].playback)
    ELSE is_audio_output

\* {:.3} of a gain: the nearest multiple of 0.001, a tie going to the even one;
\* the result is in thousandths, NaN prints as "NaN"
Format3(x) ==
    IF x.nan THEN NaN
    ELSE LET milli == (NormDen * VolDen) \div 1000
             q == x.v \div milli
             r == x.v % milli
         IN Fin(IF 2 * r > milli \/ (2 * r = milli /\ q % 2 = 1) THEN q + 1 ELSE q)

\* format!("{{ \"channelVolumes\": [{:.3}, {:.3}] }}", left, right)
Payload(left, right) == <<Format3(left), Format3(right)>>

\* the inner while: the value of j when the lookahead from line j of the block
\* of line i ends
RECURSIVE LookaheadEnd(_, _, _)
LookaheadEnd(lines, i, j) ==
    IF j <= Len(lines) /\ j < i + LOOKAHEAD
    THEN IF lines[j].starts_id THEN j ELSE LookaheadEnd(lines, i, j + 1)
    ELSE j

\* line i opens a node block and yields an id
IsNodeLine(line) == line.starts_id /\ line.node /\ line.token

\* the outer while from line i: calls are the set-param invocations made so far
RECURSIVE Scan(_, _, _, _, _, _, _)
Scan(lines, i, updated_count, calls, upd, left, right) ==
    IF i > Len(lines) THEN [count |-> updated_count, calls |-> calls]
    ELSE IF IsNodeLine(lines[i]) /\ Lookahead(lines, i, i + 1, FALSE)
    THEN LET result == upd[Len(calls) + 1]
             call == [node |-> i, left |-> left, right |-> right,
                      payload |-> Payload(left, right), result |-> result]
         IN Scan(lines, i + 1,
                 IF UpdateCounted(result) THEN updated_count + 1 ELSE updated_count,
                 Append(calls, call), upd, left, right)
    ELSE Scan(lines, i + 1, updated_count, calls, upd, left, right)

\* Command::output() of "pw-cli list-objects Node" is Err only when the spawn fails
IntrospectionFailed(run) == ~run.spawned

set_all_streams_pan(left, right, run, upd) ==
    IF IntrospectionFailed(run) THEN [count |-> 0, calls |-> <<>>]
    ELSE Scan(run.stdout, 1, 0, <<>>, upd, left, right)

(* Listings: concatenations of at most MaxNodes segments. *)

RECURSIVE Pad(_)
Pad(n) == IF n = 0 THEN <<>> ELSE <<OtherLine>> \o Pad(n - 1)

Segments ==
    { <<NodeLine, OtherLine, MediaLine>>,
      <<NodeLine>> \o Pad(LOOKAHEAD - 2) \o <<MediaLine>>,
      <<NodeLine>> \o Pad(LOOKAHEAD - 1) \o <<MediaLine>>,
      <<NodeLine, OtherLine>>,
      <<NodeLine, IdLine, MediaLine>>,
      <<NodeNoTokenLine, MediaLine>>,
      <<MediaLine>> }

RECURSIVE ListingsUpTo(_)
ListingsUpTo(n) ==
    IF n = 0 THEN { <<>> }
    ELSE LET shorter == ListingsUpTo(n - 1)
         IN shorter \cup { l \o s : l \in shorter, s \in Segments }

Listings == ListingsUpTo(MaxNodes)

PwRuns ==
    { [spawned |-> FALSE, success |-> FALSE, stdout |-> <<>>] }
    \cup [spawned : {TRUE}, success : BOOLEAN, stdout : Listings]

UpdResults == [1..MaxNodes -> UpdateOutcomes]

---------------------------------------------------------------------------
(* The receive loop of main *)

\* a datagram as sent: its length and the doubles [x, y, z, yaw, pitch, roll] it starts with
Payloads ==
    { <<Deg(1), Deg(2), Deg(3), Deg(0), Deg(0), Deg(0)>>,
      <<Deg(1), Deg(2), Deg(3), Deg(20), Deg(80), Deg(8)>>,
      <<Deg(1), Deg(2), Deg(3), Deg(120), Deg(-160), Deg(0)>>,
      <<Deg(1), Deg(2), Deg(3), Deg(-120), Deg(40), Deg(-8)>>,
      <<Deg(1), Deg(2), Deg(3), Deg(0), NaN, Deg(0)>> }
SentLens == {FRAME_LEN - 8, FRAME_LEN, FRAME_LEN + 8}
Datagrams == [len : SentLens, data : Payloads]

\* recv_from into buf: the byte count returned never exceeds the buffer, the
\* excess bytes of a longer datagram are discarded (where the platform reports
\* an error instead, the iteration is a RecvErr)
RecvAmt(len) == IF len > BUF_LEN THEN BUF_LEN ELSE len

\* mutant of ValidLength: short datagrams pass
ValidLength_AtMost(amt) == amt <= FRAME_LEN

ValidLength(amt) == amt = FRAME_LEN

\* transmute(buf): data[3], data[4], data[5]
Decode(data) == [yaw |-> data[4], pitch |-> data[5], roll |-> data[6]]

\* mutant of RateGated: the gate opens after half the update interval
RateGated_Half(elapsed) == elapsed < UPDATE_RATE_MS \div 2

RateGated(elapsed) == elapsed < UPDATE_RATE_MS

\* mutant of FpsWindowElapsed: the FPS is recomputed after half a second
FpsWindowElapsed_Half(elapsed) == elapsed >= FPS_WINDOW_MS \div 2

FpsWindowElapsed(elapsed) == elapsed >= FPS_WINDOW_MS

\* frame_count as f64 / elapsed.as_secs_f64(), kept as the fraction num/den
Fps(count, elapsed_ms) == [num |-> count * 1000, den |-> elapsed_ms]

\* mutant of PushLatency: a full window drops the new sample instead of the oldest
PushLatency_DropNewest(samples, audio_latency) ==
    LET pushed == Append(samples, audio_latency)
    IN IF Len(pushed) > LATENCY_CAP THEN samples ELSE pushed

PushLatency(samples, audio_latency) ==
    LET pushed == Append(samples, audio_latency)
    IN IF Len(pushed) > LATENCY_CAP THEN Tail(pushed) ELSE pushed

RECURSIVE SumSeq(_)
SumSeq(q) == IF q = <<>> THEN 0 ELSE Head(q) + SumSeq(Tail(q))

\* iter().sum() / len(), kept as the fraction sum/n
AvgLatency(samples) == [sum |-> SumSeq(samples), n |-> Len(samples)]

\* the kinds of error recv_from returns: the read timeout shows as WouldBlock
\* or TimedOut, depending on the platform
ErrKinds == {"WouldBlock", "TimedOut", "Other"}

\* mutant of ErrorLogged: only would-block is taken for a timeout
ErrorLogged_OnlyWouldBlock(kind) == kind # "WouldBlock"

\* e.kind() != WouldBlock && e.kind() != TimedOut
ErrorLogged(kind) == kind \notin {"WouldBlock", "TimedOut"}

RecvTimeoutMs == UPDATE_RATE_MS \div 2

\* what the loop sees of pw-cli, and how long an apply takes
ApplyDurations == {20, 1000}
LoopListings ==
    { <<>>,
      <<NodeLine, OtherLine, MediaLine>>,
      <<NodeLine, OtherLine, MediaLine, NodeLine, OtherLine, MediaLine>> }
LoopRuns ==
    { [spawned |-> FALSE, success |-> FALSE, stdout |-> <<>>] }
    \cup [spawned : {TRUE}, success : BOOLEAN, stdout : LoopListings]
LoopUpd ==
    { [k \in 1..MaxNodes |-> "ok"],
      [k \in 1..MaxNodes |-> IF k = 1 THEN "nonzero" ELSE "ok"] }

NoPanIn == [left |-> Fin(0), right |-> Fin(0),
            run |-> [spawned |-> FALSE, success |-> FALSE, stdout |-> <<>>],
            upd |-> [k \in 1..MaxNodes |-> "ok"]]
NoPanOut == [count |-> 0, calls |-> <<>>]

LoopInit ==
    /\ now = 0
    /\ last_update = 0
    /\ last_fps_calc = 0
    /\ pre_audio = 0
    /\ packet_count = 0
    /\ frame_count = 0
    /\ current_fps = [num |-> 0, den |-> 1]
    /\ stream_count = 0
    /\ smoothed = SmoothedNew
    /\ first_packet = TRUE
    /\ raw = [yaw |-> Fin(0), pitch |-> Fin(0), roll |-> Fin(0)]
    /\ latency_samples = <<>>
    /\ avg_latency_ms = [sum |-> 0, n |-> 1]
    /\ audio = from_head_tracking(Fin(0), Fin(0))
    /\ stderr_lines = 0
    /\ last_recv = [kind |-> "none", len |-> 0, amt |-> 0]
    /\ frames = <<>>
    /\ applied = 0

AuxInit ==
    /\ scan_i = 1
    /\ pw_lists = 0
    /\ lat_history = <<>>

Init ==
    /\ pc = "bind"
    /\ LoopInit
    /\ pan_in = NoPanIn
    /\ pan_out = NoPanOut
    /\ AuxInit

\* UdpSocket::bind succeeds
BindOk ==
    /\ pc = "bind"
    /\ pc' = "set_timeout"
    /\ UNCHANGED <<now, loopState, stderr_lines, last_recv, frames, applied, pan_in, pan_out, aux>>

\* UdpSocket::bind fails: std::process::exit(1)
BindFail ==
    /\ pc = "bind"
    /\ pc' = "exited"
    /\ UNCHANGED <<now, loopState, stderr_lines, last_recv, frames, applied, pan_in, pan_out, aux>>

\* set_read_timeout(..) is Ok: the loop variables are initialised and the loop entered
SetTimeoutOk ==
    /\ pc = "set_timeout"
    /\ pc' = "loop"
    /\ UNCHANGED <<now, loopState, stderr_lines, last_recv, frames, applied, pan_in, pan_out, aux>>

\* set_read_timeout(..) is Err: .expect("Failed to set timeout") panics
SetTimeoutFail ==
    /\ pc = "set_timeout"
    /\ pc' = "panicked"
    /\ UNCHANGED <<now, loopState, stderr_lines, last_recv, frames, applied, pan_in, pan_out, aux>>

\* the inputs an iteration does not read are fixed: the payload of a datagram of
\* the wrong length, and pw-cli and its duration when no apply is made
IdlePayload == CHOOSE p \in Payloads : TRUE
IdleDuration == CHOOSE d \in ApplyDurations : TRUE
IdleRun == CHOOSE r \in LoopRuns : TRUE
IdleUpd == CHOOSE u \in LoopUpd : TRUE
Relevant(dg, d, run, upd) ==
    LET valid == ValidLength(RecvAmt(dg.len))
        applies == valid /\ ~RateGated(now - last_update)
    IN /\ valid \/ dg.data = IdlePayload
       /\ applies \/ /\ d = IdleDuration
                      /\ run = IdleRun
                      /\ upd = IdleUpd

\* one iteration whose recv_from is Ok: datagram dg arrives, an apply (if any)
\* talks to the pw-cli described by run and upd and takes d ms
RecvOk(dg, d, run, upd) ==
    /\ pc = "loop"
    /\ packet_count < MaxPackets
    /\ Relevant(dg, d, run, upd)
    /\ packet_count' = packet_count + 1
    /\ last_recv' = [kind |-> "Ok", len |-> dg.len, amt |-> RecvAmt(dg.len)]
    /\ UNCHANGED <<pc, stderr_lines, pan_in, pan_out, scan_i>>
    /\ IF ~ValidLength(RecvAmt(dg.len))
       THEN UNCHANGED <<now, last_update, last_fps_calc, pre_audio, frame_count,
                        current_fps, stream_count, smoothed, first_packet, raw,
                        latency_samples, avg_latency_ms, audio, frames, applied,
                        pw_lists, lat_history>>
       ELSE LET sample == Decode(dg.data)
                sm == Update(smoothed, sample.yaw, sample.pitch, sample.roll)
            IN /\ raw' = sample
               /\ smoothed' = sm
               /\ frames' = Append(frames, sample)
               /\ IF RateGated(now - last_update)
                  THEN UNCHANGED <<now, last_update, last_fps_calc, pre_audio,
                                   frame_count, current_fps, stream_count, first_packet,
                                   latency_samples, avg_latency_ms, audio, applied,
                                   pw_lists, lat_history>>
                  ELSE LET counted == frame_count + 1
                           recalc == FpsWindowElapsed(now - last_fps_calc)
                           a == from_head_tracking(sm.yaw, sm.pitch)
                           res == set_all_streams_pan(a.left, a.right, run, upd)
                           samples == PushLatency(latency_samples, d)
                       IN /\ first_packet' = FALSE
                          /\ frame_count' = IF recalc THEN 0 ELSE counted
                          /\ current_fps' = IF recalc
                                            THEN Fps(counted, now - last_fps_calc)
                                            ELSE current_fps
                          /\ last_fps_calc' = IF recalc THEN now ELSE last_fps_calc
                          /\ audio' = a
                          /\ pre_audio' = now
                          /\ stream_count' = res.count
                          /\ latency_samples' = samples
                          /\ avg_latency_ms' = AvgLatency(samples)
                          /\ now' = now + d
                          /\ last_update' = now + d
                          /\ applied' = applied + 1
                          /\ pw_lists' = pw_lists + 1
                          /\ lat_history' = Append(lat_history, d)

\* mutant of RecvErr: an error that is not a timeout ends the process
RecvErr_Fatal(kind) ==
    /\ pc = "loop"
    /\ IF kind \notin {"WouldBlock", "TimedOut"}
       THEN /\ stderr_lines < MaxErrLog
            /\ stderr_lines' = stderr_lines + 1
            /\ now' = now
            /\ pc' = "exited"
       ELSE /\ now + (UPDATE_RATE_MS \div 2) - last_update <= MaxIdle
            /\ stderr_lines' = stderr_lines
            /\ now' = now + (UPDATE_RATE_MS \div 2)
            /\ pc' = pc
    /\ last_recv' = [kind |-> kind, len |-> 0, amt |-> 0]
    /\ UNCHANGED <<loopState, frames, applied, pan_in, pan_out, aux>>

\* mutant of RecvErr: a read timeout that finds the rate gate open applies the
\* current smoothed orientation
RecvErr_Applies(kind) ==
    /\ pc = "loop"
    /\ IF ErrorLogged(kind)
       THEN /\ stderr_lines < MaxErrLog
            /\ stderr_lines' = stderr_lines + 1
            /\ now' = now
       ELSE /\ now + RecvTimeoutMs - last_update <= MaxIdle
            /\ stderr_lines' = stderr_lines
            /\ now' = now + RecvTimeoutMs
    /\ last_recv' = [kind |-> kind, len |-> 0, amt |-> 0]
    /\ IF ~ErrorLogged(kind) /\ ~RateGated(now' - last_update)
       THEN /\ audio' = from_head_tracking(smoothed.yaw, smoothed.pitch)
            /\ applied' = applied + 1
       ELSE UNCHANGED <<audio, applied>>
    /\ UNCHANGED <<pc, last_update, last_fps_calc, pre_audio, packet_count,
                   frame_count, current_fps, stream_count, smoothed, first_packet,
                   raw, latency_samples, avg_latency_ms, frames, pan_in, pan_out, aux>>

\* one iteration whose recv_from is Err(kind): a timeout returns after the read
\* timeout has passed, any other error at once
RecvErr(kind) ==
    /\ pc = "loop"
    /\ IF ErrorLogged(kind)
       THEN /\ stderr_lines < MaxErrLog
            /\ stderr_lines' = stderr_lines + 1
            /\ now' = now
       ELSE /\ now + RecvTimeoutMs - last_update <= MaxIdle
            /\ stderr_lines' = stderr_lines
            /\ now' = now + RecvTimeoutMs
    /\ last_recv' = [kind |-> kind, len |-> 0, amt |-> 0]
    /\ UNCHANGED <<pc, loopState, frames, applied, pan_in, pan_out, aux>>

Next ==
    \/ BindOk
    \/ BindFail
    \/ SetTimeoutOk
    \/ SetTimeoutFail
    \/ \E dg \in Datagrams, d \in ApplyDurations, run \in LoopRuns, upd \in LoopUpd :
           RecvOk(dg, d, run, upd)
    \/ \E kind \in ErrKinds : RecvErr(kind)

Spec == Init /\ [][Next]_vars

---------------------------------------------------------------------------
(* set_all_streams_pan on its own, over every listing, exit status and     *)
(* per-node outcome of the bounded sets                                    *)

PanGains == { from_head_tracking(Deg(0), Deg(0)), from_head_tracking(Deg(30), Deg(20)) }

InitPan ==
    /\ pc = "pan_call"
    /\ LoopInit
    /\ pan_in \in { [left |-> g.left, right |-> g.right, run |-> r, upd |-> u] :
                      g \in PanGains, r \in PwRuns, u \in UpdResults }
    /\ pan_out = NoPanOut
    /\ AuxInit

PanCall ==
    /\ pc = "pan_call"
    /\ pan_out' = set_all_streams_pan(pan_in.left, pan_in.right, pan_in.run, pan_in.upd)
    /\ pc' = "pan_done"
    /\ UNCHANGED <<now, loopState, stderr_lines, last_recv, frames, applied, pan_in, aux>>

NextPan == PanCall

SpecPan == InitPan /\ [][NextPan]_vars

---------------------------------------------------------------------------
(* AudioState::from_head_tracking on its own, over yaws on both sides of   *)
(* the dead zone and of the sensitivity range, and NaN                     *)

MaxYawSteps == 70    \* half-degree steps of yaw on either side of 0

MapYaws ==
    { Fin(k * (Unit \div 2)) : k \in -MaxYawSteps..MaxYawSteps }
    \cup { Fin(s * (DEAD_ZONE * Unit + e)) : s \in {-1, 1}, e \in {-1, 1} }
    \cup { NaN }
MapPitches == { Deg(-PITCH_SENSITIVITY - 5), Deg(0), Deg(PITCH_SENSITIVITY), NaN }

LoopInitExceptSmoothed ==
    /\ now = 0
    /\ last_update = 0
    /\ last_fps_calc = 0
    /\ pre_audio = 0
    /\ packet_count = 0
    /\ frame_count = 0
    /\ current_fps = [num |-> 0, den |-> 1]
    /\ stream_count = 0
    /\ first_packet = TRUE
    /\ raw = [yaw |-> Fin(0), pitch |-> Fin(0), roll |-> Fin(0)]
    /\ latency_samples = <<>>
    /\ avg_latency_ms = [sum |-> 0, n |-> 1]
    /\ audio = from_head_tracking(Fin(0), Fin(0))
    /\ stderr_lines = 0
    /\ last_recv = [kind |-> "none", len |-> 0, amt |-> 0]
    /\ frames = <<>>
    /\ applied = 0
    /\ pan_in = NoPanIn
    /\ pan_out = NoPanOut
    /\ AuxInit

InitMap ==
    /\ pc = "map_call"
    /\ smoothed \in { [yaw |-> y, pitch |-> p, roll |-> Fin(0)] :
                        y \in MapYaws, p \in MapPitches }
    /\ LoopInitExceptSmoothed

\* let audio = AudioState::from_head_tracking(smoothed.yaw, smoothed.pitch)
MapCall ==
    /\ pc = "map_call"
    /\ audio' = from_head_tracking(smoothed.yaw, smoothed.pitch)
    /\ pc' = "map_done"
    /\ UNCHANGED <<now, last_update, last_fps_calc, pre_audio, packet_count,
                   frame_count, current_fps, stream_count, smoothed, first_packet,
                   raw, latency_samples, avg_latency_ms, stderr_lines, last_recv,
                   frames, applied, pan_in, pan_out, aux>>

NextMap == MapCall

SpecMap == InitMap /\ [][NextMap]_vars

---------------------------------------------------------------------------
(* The loop with the apply taken one external command at a time: pc is     *)
(* "loop" at recv_from, "list" before pw-cli list-objects is run, "scan"   *)
(* inside the outer while of set_all_streams_pan, and "metrics" once       *)
(* set_all_streams_pan has returned.                                       *)

\* one pass of the body of the outer while on line i: out is [count, calls] so far
ScanLine(lines, i, out, upd, left, right) ==
    IF IsNodeLine(lines[i]) /\ Lookahead(lines, i, i + 1, FALSE)
    THEN LET result == upd[Len(out.calls) + 1]
             call == [node |-> i, left |-> left, right |-> right,
                      payload |-> Payload(left, right), result |-> result]
         IN [count |-> IF UpdateCounted(result) THEN out.count + 1 ELSE out.count,
             calls |-> Append(out.calls, call)]
    ELSE out

\* how long one pw-cli invocation takes
CmdDurations == {UPDATE_RATE_MS \div 2}

CycleDatagrams ==
    { dg \in Datagrams :
        \/ dg.len = FRAME_LEN /\ dg.data[4] \in {Deg(120), Deg(-120)}
        \/ dg.len < FRAME_LEN /\ dg.data = IdlePayload }
\* pw-cli cannot be spawned; or it lists nothing, one node (and exits with a
\* non-zero status) or two nodes
CycleRuns ==
    { r \in LoopRuns : r.spawned => (r.success <=> Len(r.stdout) # 3) }

InitCycle ==
    /\ pc = "loop"
    /\ LoopInit
    /\ pan_in = NoPanIn
    /\ pan_out = NoPanOut
    /\ AuxInit

\* mutant of AtReceive: the socket is read while a listing is being scanned
AtReceive_DuringScan == pc \in {"loop", "scan"}

\* control is at socket.recv_from(&mut buf)
AtReceive == pc = "loop"

\* recv_from is Ok: the iteration up to the call of set_all_streams_pan
CycleRecv(dg) ==
    /\ AtReceive
    /\ packet_count < MaxPackets
    /\ packet_count' = packet_count + 1
    /\ last_recv' = [kind |-> "Ok", len |-> dg.len, amt |-> RecvAmt(dg.len)]
    /\ UNCHANGED <<now, last_update, stream_count, latency_samples, avg_latency_ms,
                   stderr_lines, applied, pan_in, pan_out, aux>>
    /\ IF ~ValidLength(RecvAmt(dg.len))
       THEN UNCHANGED <<pc, last_fps_calc, pre_audio, frame_count, current_fps,
                        smoothed, first_packet, raw, audio, frames>>
       ELSE LET sample == Decode(dg.data)
                sm == Update(smoothed, sample.yaw, sample.pitch, sample.roll)
            IN /\ raw' = sample
               /\ smoothed' = sm
               /\ frames' = Append(frames, sample)
               /\ IF RateGated(now - last_update)
                  THEN UNCHANGED <<pc, last_fps_calc, pre_audio, frame_count,
                                   current_fps, first_packet, audio>>
                  ELSE LET counted == frame_count + 1
                           recalc == FpsWindowElapsed(now - last_fps_calc)
                       IN /\ first_packet' = FALSE
                          /\ frame_count' = IF recalc THEN 0 ELSE counted
                          /\ current_fps' = IF recalc
                                            THEN Fps(counted, now - last_fps_calc)
                                            ELSE current_fps
                          /\ last_fps_calc' = IF recalc THEN now ELSE last_fps_calc
                          /\ audio' = from_head_tracking(sm.yaw, sm.pitch)
                          /\ pre_audio' = now
                          /\ pc' = "list"

\* mutant of CycleList: after the first apply the gains of the call before are
\* passed again
CycleList_StaleGains(run, upd, d) ==
    /\ pc = "list"
    /\ pw_lists' = pw_lists + 1
    /\ pan_in' = [left |-> IF applied > 0 THEN pan_in.left ELSE audio.left,
                  right |-> IF applied > 0 THEN pan_in.right ELSE audio.right,
                  run |-> run, upd |-> upd]
    /\ pan_out' = NoPanOut
    /\ scan_i' = 1
    /\ now' = now + d
    /\ pc' = IF IntrospectionFailed(run) THEN "metrics" ELSE "scan"
    /\ UNCHANGED <<loopState, stderr_lines, last_recv, frames, applied, lat_history>>

\* mutant of CycleList: once an apply has updated no stream, later listings are
\* not read
CycleList_StickyFailure(run, upd, d) ==
    /\ pc = "list"
    /\ pw_lists' = pw_lists + 1
    /\ pan_in' = [left |-> audio.left, right |-> audio.right, run |-> run, upd |-> upd]
    /\ pan_out' = NoPanOut
    /\ scan_i' = 1
    /\ now' = now + d
    /\ pc' = IF IntrospectionFailed(run) \/ (applied > 0 /\ stream_count = 0)
             THEN "metrics" ELSE "scan"
    /\ UNCHANGED <<loopState, stderr_lines, last_recv, frames, applied, lat_history>>

\* set_all_streams_pan(audio.left, audio.right) up to the outer while: pw-cli
\* list-objects Node is run, taking d ms
CycleList(run, upd, d) ==
    /\ pc = "list"
    /\ pw_lists' = pw_lists + 1
    /\ pan_in' = [left |-> audio.left, right |-> audio.right, run |-> run, upd |-> upd]
    /\ pan_out' = NoPanOut
    /\ scan_i' = 1
    /\ now' = now + d
    /\ pc' = IF IntrospectionFailed(run) THEN "metrics" ELSE "scan"
    /\ UNCHANGED <<loopState, stderr_lines, last_recv, frames, applied, lat_history>>

\* mutant of CycleScanLine: i is incremented only after an update invocation
CycleScanLine_StuckIndex(d) ==
    /\ pc = "scan"
    /\ IF scan_i > Len(pan_in.run.stdout)
       THEN /\ pc' = "metrics"
            /\ UNCHANGED <<pan_out, scan_i, now>>
       ELSE LET out == ScanLine(pan_in.run.stdout, scan_i, pan_out, pan_in.upd,
                                pan_in.left, pan_in.right)
            IN /\ pan_out' = out
               /\ scan_i' = IF out.calls # pan_out.calls THEN scan_i + 1 ELSE scan_i
               /\ now' = IF out.calls # pan_out.calls THEN now + d ELSE now
               /\ pc' = pc
    /\ UNCHANGED <<loopState, stderr_lines, last_recv, frames, applied, pan_in,
                   pw_lists, lat_history>>

\* one test of the outer while and, when it holds, one pass of its body; a
\* set-param invocation takes d ms
CycleScanLine(d) ==
    /\ pc = "scan"
    /\ IF scan_i > Len(pan_in.run.stdout)
       THEN /\ pc' = "metrics"
            /\ UNCHANGED <<pan_out, scan_i, now>>
       ELSE LET out == ScanLine(pan_in.run.stdout, scan_i, pan_out, pan_in.upd,
                                pan_in.left, pan_in.right)
            IN /\ pan_out' = out
               /\ scan_i' = scan_i + 1
               /\ now' = IF out.calls # pan_out.calls THEN now + d ELSE now
               /\ pc' = pc
    /\ UNCHANGED <<loopState, stderr_lines, last_recv, frames, applied, pan_in,
                   pw_lists, lat_history>>

\* set_all_streams_pan has returned: latency, dashboard, last_update
CycleMetrics ==
    /\ pc = "metrics"
    /\ LET audio_latency == now - pre_audio
           samples == PushLatency(latency_samples, audio_latency)
       IN /\ stream_count' = pan_out.count
          /\ latency_samples' = samples
          /\ avg_latency_ms' = AvgLatency(samples)
          /\ lat_history' = Append(lat_history, audio_latency)
    /\ last_update' = now
    /\ applied' = applied + 1
    /\ pc' = "loop"
    /\ UNCHANGED <<now, last_fps_calc, pre_audio, packet_count, frame_count,
                   current_fps, smoothed, first_packet, raw, audio, stderr_lines,
                   last_recv, frames, pan_in, pan_out, scan_i, pw_lists>>

NextCycle ==
    \/ \E dg \in CycleDatagrams : CycleRecv(dg)
    \/ \E run \in CycleRuns, upd \in LoopUpd, d \in CmdDurations : CycleList(run, upd, d)
    \/ \E d \in CmdDurations : CycleScanLine(d)
    \/ CycleMetrics
    \/ \E kind \in ErrKinds : RecvErr(kind)

SpecCycle == InitCycle /\ [][NextCycle]_vars

---------------------------------------------------------------------------
(* A long run of apply cycles: a valid frame arrives each time the rate    *)
(* gate has just opened.  The k-th apply takes k ms until the latency      *)
(* window is nearly full, and 20 or 1000 ms after that.                    *)

LongRunDurations(k) == IF k <= LATENCY_CAP - 2 THEN {k} ELSE ApplyDurations
LongRunPayload == <<Deg(1), Deg(2), Deg(3), Deg(0), Deg(0), Deg(0)>>
LongRunRuns ==
    { r \in LoopRuns : ~r.spawned \/ (r.success /\ Len(r.stdout) = 6) }

\* one iteration of the loop that is not rate-gated: recv_from returns a valid
\* frame UPDATE_RATE_MS after the last apply ended, the apply takes d ms
LongRunCycle(d, run) ==
    LET t == last_update + UPDATE_RATE_MS
        sample == Decode(LongRunPayload)
        sm == Update(smoothed, sample.yaw, sample.pitch, sample.roll)
        counted == frame_count + 1
        recalc == FpsWindowElapsed(t - last_fps_calc)
        a == from_head_tracking(sm.yaw, sm.pitch)
        res == set_all_streams_pan(a.left, a.right, run, IdleUpd)
        samples == PushLatency(latency_samples, d)
    IN /\ pc = "loop"
       /\ applied < LATENCY_CAP + MaxPushes
       /\ d \in LongRunDurations(applied + 1)
       /\ ValidLength(RecvAmt(FRAME_LEN)) /\ ~RateGated(t - last_update)
       /\ packet_count' = packet_count + 1
       /\ last_recv' = [kind |-> "Ok", len |-> FRAME_LEN, amt |-> RecvAmt(FRAME_LEN)]
       /\ raw' = sample
       /\ smoothed' = sm
       /\ frames' = Append(frames, sample)
       /\ first_packet' = FALSE
       /\ frame_count' = IF recalc THEN 0 ELSE counted
       /\ current_fps' = IF recalc THEN Fps(counted, t - last_fps_calc) ELSE current_fps
       /\ last_fps_calc' = IF recalc THEN t ELSE last_fps_calc
       /\ audio' = a
       /\ pre_audio' = t
       /\ stream_count' = res.count
       /\ latency_samples' = samples
       /\ avg_latency_ms' = AvgLatency(samples)
       /\ now' = t + d
       /\ last_update' = t + d
       /\ applied' = applied + 1
       /\ pw_lists' = pw_lists + 1
       /\ lat_history' = Append(lat_history, d)
       /\ UNCHANGED <<pc, stderr_lines, pan_in, pan_out, scan_i>>

NextLongRun == \E d \in 1..FPS_WINDOW_MS, run \in LongRunRuns : LongRunCycle(d, run)

SpecLongRun == InitCycle /\ [][NextLongRun]_vars

---------------------------------------------------------------------------
(* SmoothedState::update on its own, with the raw input held constant.     *)
(* The values are multiples of 4^MaxHold grid units, so that MaxHold       *)
(* updates are exact; a smoothed axis may also be NaN, which the filter    *)
(* produces from a NaN sample.  frames holds the samples fed since Init.   *)

HoldUnit == Pow(4, MaxHold)
HoldStarts ==
    { [yaw |-> y, pitch |-> p, roll |-> Fin(0)] :
        y \in { Fin(k * HoldUnit) : k \in -2..2 } \cup { NaN },
        p \in { Fin(0), Fin(3 * HoldUnit), NaN } }
HoldInputs ==
    { [yaw |-> Fin(k * HoldUnit), pitch |-> Fin(m * HoldUnit), roll |-> Fin(0)] :
        k \in -1..1, m \in 0..1 }

InitHold ==
    /\ pc = "hold"
    /\ smoothed \in HoldStarts
    /\ raw \in HoldInputs
    /\ now = 0
    /\ last_update = 0
    /\ last_fps_calc = 0
    /\ pre_audio = 0
    /\ packet_count = 0
    /\ frame_count = 0
    /\ current_fps = [num |-> 0, den |-> 1]
    /\ stream_count = 0
    /\ first_packet = TRUE
    /\ latency_samples = <<>>
    /\ avg_latency_ms = [sum |-> 0, n |-> 1]
    /\ audio = from_head_tracking(Fin(0), Fin(0))
    /\ stderr_lines = 0
    /\ last_recv = [kind |-> "none", len |-> 0, amt |-> 0]
    /\ frames = <<>>
    /\ applied = 0
    /\ pan_in = NoPanIn
    /\ pan_out = NoPanOut
    /\ AuxInit

\* smoothed.update(raw_yaw, raw_pitch, raw_roll) with the same raw values again
HoldUpdate ==
    /\ pc = "hold"
    /\ Len(frames) < MaxHold
    /\ smoothed' = Update(smoothed, raw.yaw, raw.pitch, raw.roll)
    /\ frames' = Append(frames, raw)
    /\ UNCHANGED <<pc, now, last_update, last_fps_calc, pre_audio, packet_count,
                   frame_count, current_fps, stream_count, first_packet, raw,
                   latency_samples, avg_latency_ms, audio, stderr_lines, last_recv,
                   applied, pan_in, pan_out, aux>>

NextHold == HoldUpdate

SpecHold == InitHold /\ [][NextHold]_vars

---------------------------------------------------------------------------
(* The scan of set_all_streams_pan on its own, one pass of the outer while *)
(* at a time, over every listing of the bounded set.  Every set-param      *)
(* invocation returns; the thread is never stopped, hence the fairness.    *)

InitScan ==
    /\ pc = "scan"
    /\ LoopInit
    /\ pan_in \in { [left |-> g.left, right |-> g.right, run |-> r, upd |-> u] :
                      g \in { from_head_tracking(Deg(30), Deg(20)) },
                      r \in { q \in PwRuns : q.spawned /\ q.success },
                      u \in LoopUpd }
    /\ pan_out = NoPanOut
    /\ scan_i = 1
    /\ pw_lists = 1
    /\ lat_history = <<>>

NextScan == \E d \in CmdDurations : CycleScanLine(d)

SpecScan == InitScan /\ [][NextScan]_vars /\ WF_vars(NextScan)

---------------------------------------------------------------------------
(* Claims *)

\* the latest step handled a datagram whose received byte count is not 48
InvalidFrameHandled == last_recv'.kind = "Ok" /\ last_recv'.amt # FRAME_LEN

\* C1 (as stated): after a datagram whose length as sent is not 48 bytes,
\* shorter or longer, no sample is decoded and SmoothedOrientation is unchanged.
C1_WrongLengthKeepsSmoothed ==
    [][(last_recv'.kind = "Ok" /\ last_recv'.len # FRAME_LEN)
         => (smoothed' = smoothed /\ frames' = frames)]_vars

\* C2 (as stated): handling a frame whose received byte count is not 48 leaves
\* all loop state unchanged, the packet counter included.
C2_InvalidFrameKeepsAllState ==
    [][InvalidFrameHandled => (UNCHANGED loopState /\ pc' = "loop")]_vars

\* C2 (amended): handling a frame whose received byte count is not 48 adds one
\* to the packet counter and leaves every other loop variable unchanged (the
\* smoothed orientation, raw values, apply counter, FPS, stream count, both
\* timestamps, the latency window and its average); the loop goes on.
C2_InvalidFrameOnlyCounts ==
    [][InvalidFrameHandled
         => /\ packet_count' = packet_count + 1
            /\ UNCHANGED <<last_update, last_fps_calc, pre_audio, frame_count,
                           current_fps, stream_count, smoothed, first_packet, raw,
                           latency_samples, avg_latency_ms, audio>>
            /\ UNCHANGED <<frames, applied, stderr_lines, now>>
            /\ pc' = "loop"]_vars

\* an invalid frame was handled after a valid one had moved the smoothed state
C2_Witness ==
    /\ last_recv.kind = "Ok"
    /\ last_recv.amt # FRAME_LEN
    /\ packet_count = 2
    /\ smoothed # SmoothedNew

\* the recurrence folded over the samples q in closed form:
\* s_n = sum over i of 0.75^(n-i) * 0.25 * q[i]
RECURSIVE WeightedSum(_, _, _)
WeightedSum(q, axis, i) ==
    IF i > Len(q) THEN 0
    ELSE (Pow(3, Len(q) - i) * q[i][axis].v) \div Pow(4, Len(q) - i + 1)
         + WeightedSum(q, axis, i + 1)

Folded(q, axis) ==
    IF \E i \in 1..Len(q) : q[i][axis].nan THEN NaN ELSE Fin(WeightedSum(q, axis, 1))

\* C3: after any sequence of valid frames the smoothed state is the recurrence
\* smoothed = 0.75 * smoothed + 0.25 * raw folded from zero over exactly those
\* frames, in arrival order, however many of them the rate gate stopped.
C3_SmoothedIsFoldOfValidFrames ==
    /\ smoothed.yaw = Folded(frames, "yaw")
    /\ smoothed.pitch = Folded(frames, "pitch")
    /\ smoothed.roll = Folded(frames, "roll")
    /\ applied <= Len(frames)

\* two frames smoothed, one of them rate-gated
C3_Witness ==
    /\ Len(frames) = 2
    /\ applied = 1
    /\ frames[1].yaw # frames[2].yaw
    /\ smoothed.yaw # Fin(0)
    /\ pre_audio >= UPDATE_RATE_MS
    /\ last_recv.amt = FRAME_LEN

\* C4: an apply is made only when at least UPDATE_RATE_MS has passed since the
\* last apply (since loop start for the first); a gated valid frame changes only
\* the packet counter, the raw values and the smoothed state; two applies never
\* start less than UPDATE_RATE_MS apart.
C4_RateGate ==
    [][/\ applied' # applied
          => /\ pre_audio' - last_update >= UPDATE_RATE_MS
             /\ applied > 0 => pre_audio' - pre_audio >= UPDATE_RATE_MS
       /\ (Len(frames') # Len(frames) /\ applied' = applied)
          => /\ now - last_update < UPDATE_RATE_MS
             /\ UNCHANGED <<last_update, last_fps_calc, pre_audio, frame_count,
                            current_fps, stream_count, first_packet,
                            latency_samples, avg_latency_ms, audio, now>>]_vars

\* a second apply, made exactly UPDATE_RATE_MS after the first one ended
C4_Witness ==
    /\ applied = 2
    /\ pre_audio = UPDATE_RATE_MS + 20 + UPDATE_RATE_MS
    /\ latency_samples = <<20, 20>>

\* the node lines of a listing that report a playback stream: a line that starts
\* with "id", carries the node marker and an id, and is followed, within the 19
\* lines after it and before any other line starting with "id", by a playback
\* media-class line
Matching(lines) ==
    { i \in 1..Len(lines) :
        /\ lines[i].starts_id /\ lines[i].node /\ lines[i].token
        /\ \E j \in (i + 1)..(i + LOOKAHEAD - 1) :
              /\ j <= Len(lines)
              /\ lines[j].playback
              /\ \A k \in (i + 1)..j : ~lines[k].starts_id }

CallNodes(calls) == { calls[k].node : k \in 1..Len(calls) }
Successes(calls) == { k \in 1..Len(calls) : calls[k].result = "ok" }
PanDone == pc = "pan_done"

\* C5: when the listing of a successful introspection reports K playback nodes
\* and every update invocation succeeds, the call makes exactly K update
\* invocations, one per such node, and returns K.
C5_ReturnsK ==
    (/\ PanDone
     /\ pan_in.run.spawned /\ pan_in.run.success
     /\ \A k \in 1..Len(pan_out.calls) : pan_out.calls[k].result = "ok")
    => LET K == Cardinality(Matching(pan_in.run.stdout))
       IN /\ pan_out.count = K
          /\ Len(pan_out.calls) = K
          /\ CallNodes(pan_out.calls) = Matching(pan_in.run.stdout)

\* two playback nodes, one of them with its media-class line on the last line
\* of the lookahead, both updated
C5_Witness ==
    /\ PanDone
    /\ pan_in.run.success
    /\ pan_out.count = 2
    /\ Len(pan_in.run.stdout) > LOOKAHEAD
    /\ \A k \in 1..Len(pan_out.calls) : pan_out.calls[k].result = "ok"

\* C6 (as stated): when the introspection command cannot be spawned or exits
\* with a non-zero status, the call returns 0 and makes no update invocation.
C6_FailedIntrospectionReturnsZero ==
    (PanDone /\ (~pan_in.run.spawned \/ ~pan_in.run.success))
    => (pan_out.count = 0 /\ pan_out.calls = <<>>)

\* C7: in one call every playback node of the listing gets exactly one update
\* invocation, whatever the outcome of the others, and the count returned is
\* the number of invocations that succeeded.
C7_FailuresIsolated ==
    (PanDone /\ pan_in.run.spawned)
    => /\ CallNodes(pan_out.calls) = Matching(pan_in.run.stdout)
       /\ Len(pan_out.calls) = Cardinality(Matching(pan_in.run.stdout))
       /\ \A k \in 1..Len(pan_out.calls) : pan_out.calls[k].result = pan_in.upd[k]
       /\ pan_out.count = Cardinality(Successes(pan_out.calls))

\* the first update fails, the second node is still updated and counted
C7_Witness ==
    /\ PanDone
    /\ Len(pan_out.calls) = 2
    /\ pan_out.calls[1].result # "ok"
    /\ pan_out.calls[2].result = "ok"
    /\ pan_out.count = 1

\* C8 (as stated): once the socket is bound the process never exits or panics;
\* only the bind failure ends it.
C8_OnlyBindFailureTerminates ==
    [][(pc \in {"set_timeout", "loop"}) => (pc' \in {"set_timeout", "loop"})]_vars

\* C8 (amended): the process ends only before the loop starts, by exit when the
\* bind fails or by panic when setting the read timeout fails; once the loop is
\* entered no receive error, malformed frame, introspection failure or update
\* failure ends it: every iteration returns to the receive step.
C8_OnlySetupFailureTerminates ==
    [][/\ (pc = "loop") => (pc' = "loop")
       /\ (pc' = "exited") => (pc \in {"bind", "exited"})
       /\ (pc' = "panicked") => (pc \in {"set_timeout", "panicked"})]_vars

\* the loop is still running after a logged receive error, a malformed frame
\* and an apply whose introspection found nothing
C8_Witness ==
    /\ pc = "loop"
    /\ stderr_lines = 1
    /\ applied = 1
    /\ stream_count = 0
    /\ packet_count = 2
    /\ Len(frames) = 1

\* C9: an iteration whose receive fails changes no loop state and the loop goes
\* on; it writes one error line unless the error is a timeout or would-block,
\* for which it writes nothing.
C9_ReceiveErrors ==
    [][last_recv'.kind \in ErrKinds
         => /\ UNCHANGED <<loopState, frames, applied>>
            /\ pc' = "loop"
            /\ stderr_lines' = IF last_recv'.kind \in {"WouldBlock", "TimedOut"}
                               THEN stderr_lines ELSE stderr_lines + 1]_vars

\* a timeout after an error was logged and an apply was made
C9_Witness ==
    /\ last_recv.kind = "TimedOut"
    /\ stderr_lines = 1
    /\ applied = 1
    /\ now > last_update

InRange(x, lo, hi) == ~x.nan /\ lo <= x.v /\ x.v <= hi

\* C10 (as stated): the AudioState of every apply has volume in
\* [MIN_VOLUME, MAX_VOLUME] and both channels in [MIN_CHANNEL * volume, volume].
C10_GainsInRange ==
    applied > 0
    => /\ InRange(audio.volume, MIN_VOLUME_TENTHS * PitchDen, MAX_VOLUME_TENTHS * PitchDen)
       /\ InRange(audio.left, MinChannelN * audio.volume.v, NormDen * audio.volume.v)
       /\ InRange(audio.right, MinChannelN * audio.volume.v, NormDen * audio.volume.v)

\* C11: dead-zone removal.  For a yaw with |yaw| < DEAD_ZONE the effective yaw
\* is exactly 0; for |yaw| >= DEAD_ZONE its magnitude is |yaw| - DEAD_ZONE and,
\* where that is not 0, its sign is the sign of the yaw; at |yaw| = DEAD_ZONE
\* exactly the effective yaw is 0.
C11_DeadZone ==
    (pc = "map_done" /\ ~smoothed.yaw.nan)
        => LET y == smoothed.yaw.v
               e == audio.effective_yaw
               dz == DEAD_ZONE * Unit
           IN /\ ~e.nan
              /\ (Abs(y) < dz) => (e.v = 0)
              /\ (Abs(y) >= dz) => /\ Abs(e.v) = Abs(y) - dz
                                   /\ (e.v > 0) => (y > 0)
                                   /\ (e.v < 0) => (y < 0)
              /\ (Abs(y) = dz) => (e.v = 0)

\* C11 witness: the yaw is -DEAD_ZONE exactly and the effective yaw 0, and a
\* yaw beyond the dead zone on the negative side was mapped too
C11_Witness ==
    /\ pc = "map_done"
    /\ smoothed.yaw = Deg(-DEAD_ZONE)
    /\ audio.effective_yaw.v = 0
    /\ from_head_tracking(Deg(-DEAD_ZONE - 1), Deg(0)).effective_yaw = Deg(-1)

\* a set_all_streams_pan call has been entered and its metrics are not yet taken
ApplyInProgress == pw_lists # applied

\* the scan of the current call has reached the end of its listing, or there
\* was no listing to scan
ScanComplete ==
    IntrospectionFailed(pan_in.run) \/ scan_i > Len(pan_in.run.stdout)

\* C12: applies happen one at a time, in cycle order.  A datagram is received,
\* decoded or smoothed only while no apply is in progress; an apply begins only
\* when every earlier one has taken its metrics; inside a cycle the
\* introspection comes first, every update invocation follows it, and the
\* metrics are taken when the scan is complete; frames are smoothed in the
\* order received.
C12_AppliesOneAtATime ==
    [][/\ (packet_count' # packet_count \/ last_recv' # last_recv
             \/ frames' # frames \/ smoothed' # smoothed)
          => (pc = "loop" /\ ~ApplyInProgress)
       /\ (pw_lists' # pw_lists)
          => (pc = "list" /\ ~ApplyInProgress /\ pw_lists' = applied + 1)
       /\ (Len(pan_out'.calls) > Len(pan_out.calls))
          => (pc = "scan" /\ ApplyInProgress /\ pw_lists = applied + 1)
       /\ (applied' # applied)
          => (pc = "metrics" /\ ScanComplete /\ pw_lists = applied'
              /\ pan_out.calls
                   = set_all_streams_pan(pan_in.left, pan_in.right,
                                         pan_in.run, pan_in.upd).calls)
       /\ (frames' # frames)
          => (/\ Len(frames') = Len(frames) + 1
              /\ smoothed'.yaw = Folded(frames', "yaw")
              /\ smoothed'.pitch = Folded(frames', "pitch"))]_vars

\* C12 witness: the second apply is in the middle of its scan, one update made
\* and one still to make, after two frames were smoothed
C12_Witness ==
    /\ pc = "scan"
    /\ applied = 1
    /\ Len(pan_out.calls) = 1
    /\ Cardinality(Matching(pan_in.run.stdout)) = 2
    /\ Len(frames) = 2

Min(a, b) == IF a < b THEN a ELSE b

\* the last n elements of q, in order
LastN(q, n) == [k \in 1..n |-> q[Len(q) - n + k]]

RECURSIVE StartOf(_)
StartOf(k) ==
    IF k = 1 THEN UPDATE_RATE_MS
    ELSE StartOf(k - 1) + lat_history[k - 1] + UPDATE_RATE_MS

\* C14: the apply counter equals the number of apply cycles executed since the
\* last FPS recomputation (since loop start before the first); the reported FPS
\* and the window start change only in an apply cycle that finds at least one
\* second elapsed since the window start, and that cycle reports the count over
\* the elapsed time, resets the counter to 0 and restarts the window.
C14_Fps ==
    /\ [](frame_count = Cardinality({ k \in 1..applied : StartOf(k) > last_fps_calc }))
    /\ [][LET elapsed == pre_audio' - last_fps_calc
          IN /\ (applied' = applied)
                => UNCHANGED <<frame_count, current_fps, last_fps_calc>>
             /\ (applied' # applied /\ elapsed < FPS_WINDOW_MS)
                => /\ frame_count' = frame_count + 1
                   /\ UNCHANGED <<current_fps, last_fps_calc>>
             /\ (applied' # applied /\ elapsed >= FPS_WINDOW_MS)
                => /\ frame_count' = 0
                   /\ last_fps_calc' = pre_audio'
                   /\ current_fps' = [num |-> (frame_count + 1) * 1000,
                                      den |-> elapsed]]_vars

\* C14 witness: the FPS was recomputed over a window of more than one apply, and
\* two applies have been counted in the window that followed
C14_Witness ==
    /\ last_fps_calc >= FPS_WINDOW_MS
    /\ current_fps.num > 1000
    /\ current_fps.den >= FPS_WINDOW_MS
    /\ frame_count = 2

\* C15: no endpoint state is carried from one apply cycle to the next.  Every
\* apply cycle makes exactly one introspection call; what the call updates and
\* returns is fixed by that cycle's listing and update results alone: nothing
\* when the introspection could not be run, otherwise one invocation per
\* playback node of the listing and the number of those that succeeded,
\* whatever the cycle before it found; the stream count shown is that of the
\* latest cycle.
C15_NoStateAcrossCycles ==
    /\ pw_lists = applied + (IF pc \in {"scan", "metrics"} THEN 1 ELSE 0)
    /\ (pc = "metrics")
       => IF IntrospectionFailed(pan_in.run)
          THEN pan_out.count = 0 /\ pan_out.calls = <<>>
          ELSE /\ CallNodes(pan_out.calls) = Matching(pan_in.run.stdout)
               /\ Len(pan_out.calls) = Cardinality(Matching(pan_in.run.stdout))
               /\ \A k \in 1..Len(pan_out.calls) :
                     pan_out.calls[k].result = pan_in.upd[k]
               /\ pan_out.count = Cardinality(Successes(pan_out.calls))
    /\ (pc \in {"loop", "list"} /\ applied > 0) => (stream_count = pan_out.count)

\* C15 witness: the first cycle updated nothing; the second cycle's listing has
\* two playback nodes and both were updated
C15_Witness ==
    /\ pc = "metrics"
    /\ applied = 1
    /\ stream_count = 0
    /\ Cardinality(Matching(pan_in.run.stdout)) = 2
    /\ pan_out.count = 2
    /\ pw_lists = 2

\* |a - v| is defined and less than bound
DistBelow(a, v, bound) == ~a.nan /\ ~v.nan /\ Abs(a.v - v.v) < bound

\* C16 (as stated): with the raw input of an axis held at v, from any smoothed
\* value different from v, every update brings the smoothed value strictly
\* closer to v, the distance shrinking by the factor 0.75.
C16_Converges ==
    [][\A axis \in {"yaw", "pitch"} :
          (frames' # frames /\ smoothed[axis] # raw[axis])
          => /\ ~smoothed[axis].nan
             /\ DistBelow(smoothed'[axis], raw[axis],
                          Abs(smoothed[axis].v - raw[axis].v))
             /\ 4 * Abs(smoothed'[axis].v - raw[axis].v)
                  = 3 * Abs(smoothed[axis].v - raw[axis].v)]_vars

\* the last line of the block that line i opens, when blocks are closed by the
\* lines that satisfy Closes: the line before the first closing line after i,
\* and no further than LOOKAHEAD - 1 lines after i or the end of the listing
BlockEnd(lines, i, Closes(_)) ==
    LET limit == Min(Len(lines), i + LOOKAHEAD - 1)
        closing == { j \in (i + 1)..limit : Closes(lines[j]) }
    IN IF closing = {} THEN limit
       ELSE (CHOOSE j \in closing : \A k \in closing : j <= k) - 1

NodeHeader(line) == line.starts_id /\ line.node
AnyIdLine(line) == line.starts_id

\* the lines of the block of line i that advertise media-class playback
PlaybackIn(lines, i, Closes(_)) ==
    { j \in (i + 1)..BlockEnd(lines, i, Closes) : lines[j].playback }

\* C17 (as stated): a block starts at a node line (starts with "id", carries
\* the node marker) and runs to the next node line or the lookahead limit; a
\* node is updated iff a line inside its block advertises playback.
C17_BlockToNextNodeLine ==
    (PanDone /\ pan_in.run.spawned)
    => LET lines == pan_in.run.stdout
       IN \A i \in 1..Len(lines) :
             (i \in CallNodes(pan_out.calls))
             <=> (NodeHeader(lines[i]) /\ PlaybackIn(lines, i, NodeHeader) # {})

\* C17 (amended): a block starts at a node line and runs to the next line that
\* starts with "id", node line or not, or to the 19th line after the node line;
\* a node is updated iff its node line yields an id token and a line inside its
\* block advertises playback.  A playback line behind a later line starting
\* with "id", or beyond the lookahead, never makes the node a candidate.
C17_BlockToNextIdLine ==
    (PanDone /\ pan_in.run.spawned)
    => LET lines == pan_in.run.stdout
       IN \A i \in 1..Len(lines) :
             /\ (i \in CallNodes(pan_out.calls))
                <=> (NodeHeader(lines[i]) /\ lines[i].token
                     /\ PlaybackIn(lines, i, AnyIdLine) # {})
             /\ (i \in CallNodes(pan_out.calls))
                => \E j \in (i + 1)..(i + LOOKAHEAD - 1) :
                      /\ j <= Len(lines) /\ lines[j].playback
                      /\ \A k \in (i + 1)..j : ~lines[k].starts_id

\* C17 witness: the first node's playback line lies behind a line that starts
\* with "id" and is not a node line, and the node is not updated; the second
\* node's playback line is the last line of its lookahead, and it is updated
C17_Witness ==
    /\ PanDone
    /\ pan_in.run.spawned
    /\ LET lines == pan_in.run.stdout
       IN /\ Len(lines) = 3 + LOOKAHEAD
          /\ lines[1] = NodeLine /\ lines[2] = IdLine /\ lines[3] = MediaLine
          /\ lines[4] = NodeLine /\ lines[3 + LOOKAHEAD] = MediaLine
          /\ CallNodes(pan_out.calls) = {4}

\* the AudioState of the orientation smoothed over every frame decoded so far
AudioOfFrames ==
    from_head_tracking(Folded(frames, "yaw"), Folded(frames, "pitch"))

\* C18: in every apply cycle the AudioState is computed from the current
\* smoothed orientation, which takes in the frame that started the cycle and
\* every frame before it, rate-gated or not; every node updated in the cycle is
\* sent that one [left, right] pair, in the same formatted payload; the pair
\* of an earlier cycle is not sent again.
C18_FreshGainsPerCycle ==
    (pc \in {"list", "scan", "metrics"})
    => /\ audio = AudioOfFrames
       /\ audio = from_head_tracking(smoothed.yaw, smoothed.pitch)
       /\ (pc # "list")
          => /\ pan_in.left = audio.left /\ pan_in.right = audio.right
             /\ \A k \in 1..Len(pan_out.calls) :
                   /\ pan_out.calls[k].left = audio.left
                   /\ pan_out.calls[k].right = audio.right
                   /\ pan_out.calls[k].payload = Payload(audio.left, audio.right)

\* C18 witness: the second apply, started by the second frame, has sent one pair
\* to two nodes, and it is not the pair the first apply computed
C18_Witness ==
    /\ pc = "metrics"
    /\ applied = 1
    /\ Len(frames) = 2
    /\ Len(pan_out.calls) = 2
    /\ pan_out.calls[1].payload = pan_out.calls[2].payload
    /\ pan_out.calls[1].left
         # from_head_tracking(Folded(<<frames[1]>>, "yaw"),
                              Folded(<<frames[1]>>, "pitch")).left

\* C19: an apply cycle starts only in an iteration that received a valid
\* 48-byte frame.  A step that counts an apply, changes the AudioState, runs an
\* introspection or changes the stream count is a step whose recv_from
\* returned 48 bytes and whose sample was decoded; after a timeout, a receive
\* error or an invalid frame the AudioState is what it was, however long ago
\* the last apply was made.
C19_ApplyOnlyOnValidFrame ==
    [][/\ (applied' # applied \/ audio' # audio \/ pw_lists' # pw_lists
             \/ stream_count' # stream_count \/ last_update' # last_update)
          => (/\ last_recv'.kind = "Ok" /\ last_recv'.amt = FRAME_LEN
              /\ packet_count' = packet_count + 1
              /\ Len(frames') = Len(frames) + 1)
       /\ (last_recv'.kind # "Ok" \/ last_recv'.amt # FRAME_LEN)
          => UNCHANGED <<audio, applied, stream_count, last_update, pw_lists>>]_vars

\* C19 witness: a frame was smoothed and rate-gated, the read has then timed
\* out with the gate open, and the audio state is still the one from before
\* the frame
C19_Witness ==
    /\ pc = "loop"
    /\ last_recv.kind = "TimedOut"
    /\ Len(frames) = 1
    /\ applied = 0
    /\ ~RateGated(now - last_update)
    /\ audio # from_head_tracking(smoothed.yaw, smoothed.pitch)

\* the node lines among the first n lines of the listing being scanned
NodeLinesUpTo(n) ==
    { i \in 1..Min(n, Len(pan_in.run.stdout)) : NodeHeader(pan_in.run.stdout[i]) }

\* C20: the scan of a finite listing terminates.  Every pass of the outer loop
\* moves the index on by exactly one line and makes at most one update
\* invocation, for the line it is on, which is then a node line; the lookahead
\* of a line advances over at most 19 lines; no line gets two invocations and
\* there are never more invocations than node lines passed; the call returns.
C20_ScanTerminates ==
    /\ <>(pc = "metrics")
    /\ [](pc = "metrics" => scan_i = Len(pan_in.run.stdout) + 1)
    /\ [](/\ Len(pan_out.calls) <= Cardinality(NodeLinesUpTo(scan_i - 1))
          /\ CallNodes(pan_out.calls) \subseteq NodeLinesUpTo(scan_i - 1)
          /\ \A k, m \in 1..Len(pan_out.calls) :
                (k < m) => (pan_out.calls[k].node < pan_out.calls[m].node)
          /\ \A i \in 1..Len(pan_in.run.stdout) :
                LET j == LookaheadEnd(pan_in.run.stdout, i, i + 1)
                IN j - (i + 1) <= LOOKAHEAD - 1 /\ j <= Len(pan_in.run.stdout) + 1)
    /\ [][(scan_i' # scan_i \/ pan_out' # pan_out)
            => /\ scan_i' = scan_i + 1
               /\ scan_i <= Len(pan_in.run.stdout)
               /\ \/ pan_out'.calls = pan_out.calls
                  \/ /\ Len(pan_out'.calls) = Len(pan_out.calls) + 1
                     /\ pan_out'.calls[Len(pan_out'.calls)].node = scan_i]_vars

\* C20 witness: the call has returned from a listing longer than two
\* lookaheads, with fewer invocations made than the listing has node lines
C20_Witness ==
    /\ pc = "metrics"
    /\ pw_lists = 1 /\ applied = 0
    /\ Len(pan_in.run.stdout) > 2 * LOOKAHEAD
    /\ scan_i = Len(pan_in.run.stdout) + 1
    /\ Len(pan_out.calls) = 1
    /\ Cardinality(NodeLinesUpTo(scan_i - 1)) = 2

====
